---- MODULE Spec2Model ----
(***************************************************************************)
(* Node objects of the B-link tree of src/src/node.rs: the NodeInner       *)
(* payload, the Node = RwSynchronized<NodeInner> wrapper and the BTreeNode *)
(* operations (create, has_key, is_root, set_root, move_right,             *)
(* set_children, set_keys, would_overflow, would_underflow,                *)
(* set_right_link, set_out_link).                                          *)
(*                                                                         *)
(* Spec     : one caller issuing the operations one after another, as      *)
(*            tests::test_create does.                                     *)
(* ConcSpec : several threads sharing the nodes, as the pool of            *)
(*            tests::test_concurrent_update would; every operation is an   *)
(*            access through data_ptr() that starts and finishes in        *)
(*            separate steps, and the latch of crate::sync (not part of    *)
(*            node.rs) is taken and released by separate calls.            *)
(***************************************************************************)
EXTENDS Integers, Sequences, FiniteSets

VARIABLES heap, last, ops, pc

vars == <<heap, last, ops, pc>>

(***************************************************************************)
(* Bounds of the model.                                                    *)
(***************************************************************************)
\* number of calls in one behaviour (also bounds the number of nodes)
MaxOps == 3
\* min_ord arguments of create are 0..MaxOrd
MaxOrd == 2
\* keys are 1..MaxKey
MaxKey == 2
\* key vectors passed to set_keys have at most MaxLen elements
MaxLen == 2
\* child vectors passed to set_children have at most MaxChildren elements
MaxChildren == 1
\* threads of ConcSpec are 1..MaxThreads
MaxThreads == 2

Keys == 1..MaxKey
MinOrds == 0..MaxOrd
Threads == 1..MaxThreads
KeyVecs == UNION {[1..n -> Keys] : n \in 0..MaxLen}

\* Option::None of right_link / out_link; Some(n) is the node's index n >= 1
None == 0

\* the nodes allocated so far
NodeIds(h) == 1..Len(h)
\* Option<Node<T>> values
Links(h) == {None} \cup NodeIds(h)
\* Vec<Node<T>> values
ChildVecs(h) == UNION {[1..n -> NodeIds(h)] : n \in 0..MaxChildren}

Range(s) == {s[i] : i \in 1..Len(s)}

(***************************************************************************)
(* crate::sync (RwSynchronized, RwLatch, LatchType) is imported by node.rs *)
(* but is not part of it.                                                  *)
(***************************************************************************)
LatchTypes == {"Shared", "Exclusive"}

FreeLatch == [writer |-> 0, readers |-> {}]

\* RwSynchronized::init: the payload together with its own, free latch
RwSynchronized_init(inner) == [latch |-> FreeLatch, data |-> inner]

\* self.data_ptr(): the payload, with no latch taken or tested
data_ptr(h, n) == h[n].data

(***************************************************************************)
(* NodeInner                                                               *)
(***************************************************************************)
NodeInner_new_zero_ord(min_ord) ==
    [min_ord |-> 0, root |-> FALSE, keys |-> <<>>, children |-> <<>>,
     right_link |-> None, out_link |-> None]

NodeInner_new_rooted(min_ord) ==
    [min_ord |-> min_ord, root |-> TRUE, keys |-> <<>>, children |-> <<>>,
     right_link |-> None, out_link |-> None]

NodeInner_new(min_ord) ==
    [min_ord |-> min_ord, root |-> FALSE, keys |-> <<>>, children |-> <<>>,
     right_link |-> None, out_link |-> None]

\* Node::create
create(min_ord) == RwSynchronized_init(NodeInner_new(min_ord))

(***************************************************************************)
(* slice::binary_search as called by has_key.  On a sorted slice it is the *)
(* halving loop below; on an unsorted slice its result is unspecified.     *)
(***************************************************************************)
Sorted(keys) == \A i \in 1..Len(keys) - 1 : keys[i] <= keys[i + 1]

RECURSIVE binary_search_loop(_, _, _, _)
binary_search_loop(keys, key, left, right) ==
    IF left < right
    THEN LET mid == left + ((right - left) \div 2)
             x == keys[mid + 1]
         IN  IF x < key THEN binary_search_loop(keys, key, mid + 1, right)
             ELSE IF x > key THEN binary_search_loop(keys, key, left, mid)
             ELSE [is_ok |-> TRUE, index |-> mid]
    ELSE [is_ok |-> FALSE, index |-> left]

binary_search(keys, key) == binary_search_loop(keys, key, 0, Len(keys))

\* the values has_key can return
has_key(inner, key) ==
    IF Sorted(inner.keys)
    THEN {~binary_search(inner.keys, key).is_ok}
    ELSE BOOLEAN

is_root(inner) == inner.root

set_root(inner, root) == [inner EXCEPT !.root = root]

set_children_unlinking(inner, children) ==
    [inner EXCEPT !.children = children, !.out_link = None]

set_children(inner, children) == [inner EXCEPT !.children = children]

set_keys_reversed(inner, keys) ==
    [inner EXCEPT !.keys = [i \in 1..Len(keys) |-> keys[Len(keys) + 1 - i]]]

set_keys(inner, keys) == [inner EXCEPT !.keys = keys]

would_overflow(inner) == Len(inner.keys) = inner.min_ord

would_underflow(inner) == Len(inner.keys) = 2 * inner.min_ord

set_right_link_retiring(inner, new_right_link) ==
    [inner EXCEPT !.right_link = new_right_link, !.out_link = None]

set_right_link(inner, new_right_link) ==
    [inner EXCEPT !.right_link = new_right_link]

set_out_link(inner, new_out_link) == [inner EXCEPT !.out_link = new_out_link]

\* move_right: takes the reference to the payload and returns Node::create(0)
move_right(inner, key, latch_type) == create(0)

(***************************************************************************)
(* State                                                                   *)
(*   heap : the nodes allocated so far, each a latch and a payload         *)
(*   last : the call that completed last and what it returned              *)
(*   ops  : the number of calls made                                       *)
(*   pc   : per thread, the access through data_ptr() it is in the middle  *)
(*          of (ConcSpec only)                                             *)
(***************************************************************************)
\* the value returned by the setters
Unit == "unit"

Call(op, target, arg, ret) == [op |-> op, target |-> target, arg |-> arg, ret |-> ret]

IdlePc == [state |-> "idle", op |-> "none", target |-> 0, arg |-> 0, raced |-> FALSE]

Init ==
    /\ heap = <<>>
    /\ last = Call("init", 0, 0, Unit)
    /\ ops = 0
    /\ pc = [t \in Threads |-> IdlePc]

Store(h, n, inner) == [h EXCEPT ![n].data = inner]

\* a call by the single caller: it completes in one step
Done(op, target, arg, ret) ==
    /\ ops < MaxOps
    /\ ops' = ops + 1
    /\ last' = Call(op, target, arg, ret)
    /\ UNCHANGED pc

CallCreate(min_ord) ==
    /\ heap' = Append(heap, create(min_ord))
    /\ Done("create", 0, min_ord, Len(heap) + 1)

CallHasKey(n, key) ==
    /\ \E r \in has_key(data_ptr(heap, n), key) : Done("has_key", n, key, r)
    /\ UNCHANGED heap

CallIsRoot(n) ==
    /\ Done("is_root", n, 0, is_root(data_ptr(heap, n)))
    /\ UNCHANGED heap

CallSetRoot(n, root) ==
    /\ heap' = Store(heap, n, set_root(data_ptr(heap, n), root))
    /\ Done("set_root", n, root, Unit)

CallMoveRight(n, key, latch_type) ==
    /\ heap' = Append(heap, move_right(data_ptr(heap, n), key, latch_type))
    /\ Done("move_right", n, key, Len(heap) + 1)

CallSetChildren(n, children) ==
    /\ heap' = Store(heap, n, set_children(data_ptr(heap, n), children))
    /\ Done("set_children", n, children, Unit)

CallSetKeys(n, keys) ==
    /\ heap' = Store(heap, n, set_keys(data_ptr(heap, n), keys))
    /\ Done("set_keys", n, keys, Unit)

CallWouldOverflow(n) ==
    /\ Done("would_overflow", n, 0, would_overflow(data_ptr(heap, n)))
    /\ UNCHANGED heap

CallWouldUnderflow(n) ==
    /\ Done("would_underflow", n, 0, would_underflow(data_ptr(heap, n)))
    /\ UNCHANGED heap

CallSetRightLink(n, new_right_link) ==
    /\ heap' = Store(heap, n, set_right_link(data_ptr(heap, n), new_right_link))
    /\ Done("set_right_link", n, new_right_link, Unit)

CallSetOutLink(n, new_out_link) ==
    /\ heap' = Store(heap, n, set_out_link(data_ptr(heap, n), new_out_link))
    /\ Done("set_out_link", n, new_out_link, Unit)

Next ==
    \/ \E m \in MinOrds : CallCreate(m)
    \/ \E n \in NodeIds(heap), k \in Keys : CallHasKey(n, k)
    \/ \E n \in NodeIds(heap) : CallIsRoot(n)
    \/ \E n \in NodeIds(heap), b \in BOOLEAN : CallSetRoot(n, b)
    \/ \E n \in NodeIds(heap), k \in Keys, lt \in LatchTypes : CallMoveRight(n, k, lt)
    \/ \E n \in NodeIds(heap), c \in ChildVecs(heap) : CallSetChildren(n, c)
    \/ \E n \in NodeIds(heap), ks \in KeyVecs : CallSetKeys(n, ks)
    \/ \E n \in NodeIds(heap) : CallWouldOverflow(n)
    \/ \E n \in NodeIds(heap) : CallWouldUnderflow(n)
    \/ \E n \in NodeIds(heap), l \in Links(heap) : CallSetRightLink(n, l)
    \/ \E n \in NodeIds(heap), l \in Links(heap) : CallSetOutLink(n, l)

Spec == Init /\ [][Next]_vars

(***************************************************************************)
(* ConcSpec.  The latch calls follow the contract of the latch: exclusive  *)
(* acquisition waits until there is no holder, shared acquisition waits    *)
(* while there is an exclusive holder, and a holder does not re-request.   *)
(* The node operations are those above: each obtains the payload through   *)
(* data_ptr() whatever the state of the latch.  An access that overlaps a  *)
(* write to the same node by another thread is a data race; a raced write  *)
(* may leave any value in its field and a raced read may return any value. *)
(***************************************************************************)
SetterOps == {"set_root", "set_keys", "set_children", "set_right_link", "set_out_link"}

ReaderOps == {"has_key", "is_root", "would_overflow", "would_underflow", "move_right"}

InitConc ==
    /\ heap = <<create(2)>>
    /\ last = Call("create", 0, 2, 1)
    /\ ops = 0
    /\ pc = [t \in Threads |-> IdlePc]

Holds(l, t) == l.writer = t \/ t \in l.readers

LatchCall(op, t, n, l) ==
    /\ pc[t].state = "idle"
    /\ ops < MaxOps
    /\ ops' = ops + 1
    /\ heap' = [heap EXCEPT ![n].latch = l]
    /\ last' = Call(op, n, t, Unit)
    /\ UNCHANGED pc

acquire_shared(t, n) ==
    /\ heap[n].latch.writer = 0
    /\ t \notin heap[n].latch.readers
    /\ LatchCall("acquire_shared", t, n,
                 [heap[n].latch EXCEPT !.readers = @ \cup {t}])

acquire_exclusive(t, n) ==
    /\ heap[n].latch = FreeLatch
    /\ LatchCall("acquire_exclusive", t, n, [heap[n].latch EXCEPT !.writer = t])

release(t, n) ==
    /\ Holds(heap[n].latch, t)
    /\ LatchCall("release", t, n,
                 [writer |-> 0, readers |-> heap[n].latch.readers \ {t}])

\* thread u is in the middle of an access that conflicts with op on node n
Conflicts(u, op, n) ==
    /\ pc[u].state = "busy"
    /\ pc[u].target = n
    /\ (op \in SetterOps \/ pc[u].op \in SetterOps)

\* thread t enters operation op on node n: the reference to the payload is
\* taken from data_ptr(), with no test of the latch
Begin(t, op, n, arg) ==
    /\ pc[t].state = "idle"
    /\ ops < MaxOps
    /\ ops' = ops + 1
    /\ pc' = [u \in Threads |->
                IF u = t
                THEN [state |-> "busy", op |-> op, target |-> n, arg |-> arg,
                      raced |-> \E w \in Threads \ {t} : Conflicts(w, op, n)]
                ELSE IF Conflicts(u, op, n) THEN [pc[u] EXCEPT !.raced = TRUE]
                ELSE pc[u]]
    /\ UNCHANGED <<heap, last>>

\* the payload after setter op with argument v
Apply(op, inner, v) ==
    CASE op = "set_root" -> set_root(inner, v)
      [] op = "set_keys" -> set_keys(inner, v)
      [] op = "set_children" -> set_children(inner, v)
      [] op = "set_right_link" -> set_right_link(inner, v)
      [] op = "set_out_link" -> set_out_link(inner, v)

\* the values reader op can return
Returns(op, inner, arg) ==
    CASE op = "has_key" -> has_key(inner, arg)
      [] op = "is_root" -> {is_root(inner)}
      [] op = "would_overflow" -> {would_overflow(inner)}
      [] op = "would_underflow" -> {would_underflow(inner)}

FinishSetter(t) ==
    LET c == pc[t]
        inner == data_ptr(heap, c.target)
    IN  /\ c.state = "busy"
        /\ c.op \in SetterOps
        /\ IF c.raced
           THEN CASE c.op = "set_root" ->
                       \E v \in BOOLEAN : heap' = Store(heap, c.target, Apply(c.op, inner, v))
                  [] c.op = "set_keys" ->
                       \E v \in KeyVecs : heap' = Store(heap, c.target, Apply(c.op, inner, v))
                  [] c.op = "set_children" ->
                       \E v \in ChildVecs(heap) :
                           heap' = Store(heap, c.target, Apply(c.op, inner, v))
                  [] OTHER ->
                       \E v \in Links(heap) :
                           heap' = Store(heap, c.target, Apply(c.op, inner, v))
           ELSE heap' = Store(heap, c.target, Apply(c.op, inner, c.arg))
        /\ last' = Call(c.op, c.target, c.arg, Unit)
        /\ pc' = [pc EXCEPT ![t] = IdlePc]
        /\ UNCHANGED ops

FinishReader(t) ==
    LET c == pc[t]
        inner == data_ptr(heap, c.target)
    IN  /\ c.state = "busy"
        /\ c.op \in ReaderOps \ {"move_right"}
        /\ \E r \in (IF c.raced THEN BOOLEAN ELSE Returns(c.op, inner, c.arg)) :
               last' = Call(c.op, c.target, c.arg, r)
        /\ pc' = [pc EXCEPT ![t] = IdlePc]
        /\ UNCHANGED <<heap, ops>>

FinishMoveRight(t) ==
    LET c == pc[t]
        inner == data_ptr(heap, c.target)
    IN  /\ c.state = "busy"
        /\ c.op = "move_right"
        /\ heap' = Append(heap, move_right(inner, c.arg[1], c.arg[2]))
        /\ last' = Call(c.op, c.target, c.arg, Len(heap) + 1)
        /\ pc' = [pc EXCEPT ![t] = IdlePc]
        /\ UNCHANGED ops

NextConc ==
    \/ \E m \in MinOrds : CallCreate(m)
    \/ \E t \in Threads, n \in NodeIds(heap) : acquire_shared(t, n)
    \/ \E t \in Threads, n \in NodeIds(heap) : acquire_exclusive(t, n)
    \/ \E t \in Threads, n \in NodeIds(heap) : release(t, n)
    \/ \E t \in Threads, n \in NodeIds(heap), k \in Keys : Begin(t, "has_key", n, k)
    \/ \E t \in Threads, n \in NodeIds(heap) : Begin(t, "is_root", n, 0)
    \/ \E t \in Threads, n \in NodeIds(heap), b \in BOOLEAN : Begin(t, "set_root", n, b)
    \/ \E t \in Threads, n \in NodeIds(heap), k \in Keys, lt \in LatchTypes :
           Begin(t, "move_right", n, <<k, lt>>)
    \/ \E t \in Threads, n \in NodeIds(heap), c \in ChildVecs(heap) :
           Begin(t, "set_children", n, c)
    \/ \E t \in Threads, n \in NodeIds(heap), ks \in KeyVecs : Begin(t, "set_keys", n, ks)
    \/ \E t \in Threads, n \in NodeIds(heap) : Begin(t, "would_overflow", n, 0)
    \/ \E t \in Threads, n \in NodeIds(heap) : Begin(t, "would_underflow", n, 0)
    \/ \E t \in Threads, n \in NodeIds(heap), l \in Links(heap) :
           Begin(t, "set_right_link", n, l)
    \/ \E t \in Threads, n \in NodeIds(heap), l \in Links(heap) :
           Begin(t, "set_out_link", n, l)
    \/ \E t \in Threads : FinishSetter(t)
    \/ \E t \in Threads : FinishReader(t)
    \/ \E t \in Threads : FinishMoveRight(t)

ConcSpec == InitConc /\ [][NextConc]_vars

(***************************************************************************)
(* Properties                                                              *)
(***************************************************************************)
Fields == {"min_ord", "root", "keys", "children", "right_link", "out_link"}

FieldOf(op) ==
    CASE op = "set_root" -> "root"
      [] op = "set_keys" -> "keys"
      [] op = "set_children" -> "children"
      [] op = "set_right_link" -> "right_link"
      [] op = "set_out_link" -> "out_link"

StrictlyAscending(keys) == \A i \in 1..Len(keys) - 1 : keys[i] < keys[i + 1]

Roots(h) == {n \in NodeIds(h) : data_ptr(h, n).root}

\* C1: has_key(k) returns true if and only if k is an element of the node's
\* keys, and false when k is absent, including on a node with no keys.
C1_HasKeyIffPresent ==
    last.op = "has_key" =>
        (last.ret <=> last.arg \in Range(data_ptr(heap, last.target).keys))

\* C2: would_overflow() returns true exactly when keys.len() == 2*min_ord - 1.
C2_OverflowAtCapacityMinusOne ==
    last.op = "would_overflow" =>
        LET inner == data_ptr(heap, last.target)
        IN  last.ret <=> (Len(inner.keys) = 2 * inner.min_ord - 1)

\* C3: would_underflow() returns true exactly when keys.len() == min_ord.
C3_UnderflowAtFloor ==
    last.op = "would_underflow" =>
        LET inner == data_ptr(heap, last.target)
        IN  last.ret <=> (Len(inner.keys) = inner.min_ord)

\* C4: create(min_ord) returns a new node with root == false, empty keys,
\* empty children, right_link == None, out_link == None and min_ord equal to
\* the argument, and changes no field of any existing node.
C4_CreateEmptyNonRoot ==
    [][last'.op = "create" =>
          /\ Len(heap') = Len(heap) + 1
          /\ last'.ret = Len(heap')
          /\ LET inner == data_ptr(heap', last'.ret)
             IN  /\ inner.root = FALSE
                 /\ inner.keys = <<>>
                 /\ inner.children = <<>>
                 /\ inner.right_link = None
                 /\ inner.out_link = None
                 /\ inner.min_ord = last'.arg
          /\ \A n \in NodeIds(heap) : heap'[n] = heap[n]]_vars

\* C4 witness: a create has returned while an earlier node carries fields
\* that differ from a fresh node's.
C4_Witness ==
    /\ last.op = "create"
    /\ last.ret = Len(heap)
    /\ \E n \in NodeIds(heap) \ {last.ret} :
           data_ptr(heap, n) # NodeInner_new(data_ptr(heap, n).min_ord)

\* C5: each setter replaces exactly its own field of the target node with the
\* value passed, whatever the value, and leaves the node's other fields
\* (min_ord included) and every other node unchanged; is_root() returns b
\* right after set_root(b); a link set to Some(n) and then to None reads None.
C5_SettersFrame ==
    [][/\ last'.op \in SetterOps =>
              LET n == last'.target
                  f == FieldOf(last'.op)
              IN  /\ Len(heap') = Len(heap)
                  /\ data_ptr(heap', n)[f] = last'.arg
                  /\ \A g \in Fields \ {f} : data_ptr(heap', n)[g] = data_ptr(heap, n)[g]
                  /\ \A m \in NodeIds(heap) \ {n} : heap'[m] = heap[m]
       /\ (last.op = "set_root" /\ last'.op = "is_root" /\ last'.target = last.target)
              => last'.ret = last.arg
       /\ \A op \in {"set_right_link", "set_out_link"} :
              (/\ last.op = op
               /\ last'.op = op
               /\ last'.target = last.target
               /\ last.arg # None
               /\ last'.arg = None)
              => data_ptr(heap', last'.target)[FieldOf(op)] = None]_vars

\* C5 witness: set_keys has stored a vector that is not sorted in a node
\* whose root flag and out-link had been set before.
C5_Witness ==
    /\ last.op = "set_keys"
    /\ ~Sorted(last.arg)
    /\ data_ptr(heap, last.target).keys = last.arg
    /\ \/ data_ptr(heap, last.target).root
       \/ data_ptr(heap, last.target).out_link # None

\* C6: for a node that has no right-link, or whose keys already reach the
\* target key, move_right returns that same node.
C6_MoveRightIdempotent ==
    last.op = "move_right" =>
        LET inner == data_ptr(heap, last.target)
        IN  (inner.right_link = None \/ \E i \in 1..Len(inner.keys) : last.arg <= inner.keys[i])
                => last.ret = last.target

\* C7: a node's fields are written only while the writing thread holds that
\* node's exclusive latch, and read only while the reading thread holds at
\* least its shared latch.
C7_AccessUnderLatch ==
    \A t \in Threads :
        pc[t].state = "busy" =>
            IF pc[t].op \in SetterOps
            THEN heap[pc[t].target].latch.writer = t
            ELSE Holds(heap[pc[t].target].latch, t)

\* C8 as stated: once a node's out_link is set to a node, it is never none
\* in a later state, set_out_link included.
C8_TombstonePermanent ==
    [][\A n \in NodeIds(heap) :
           data_ptr(heap, n).out_link # None => data_ptr(heap', n).out_link # None]_vars

\* C8 amended: a node's out_link, once set to a node, becomes none only by
\* a set_out_link(None) call on that node.
C8_ClearedOnlyBySetOutLink ==
    [][\A n \in NodeIds(heap) :
           (data_ptr(heap, n).out_link # None /\ data_ptr(heap', n).out_link = None)
               => (last'.op = "set_out_link" /\ last'.target = n /\ last'.arg = None)]_vars

\* C8 witness: another setter has acted on a node whose out_link is set.
C8_Witness ==
    /\ last.op \in SetterOps \ {"set_out_link"}
    /\ data_ptr(heap, last.target).out_link # None

\* C9 as stated: after any sequence of node operations every node's keys
\* sequence is strictly ascending.
C9_KeysStrictlyAscending ==
    \A n \in NodeIds(heap) : StrictlyAscending(data_ptr(heap, n).keys)

\* C9 amended: a node's keys are strictly ascending when it is created and
\* stop being so only by a set_keys call on that node whose argument is not
\* strictly ascending.
C9_OrderBrokenOnlyByUnorderedSetKeys ==
    [][\A n \in NodeIds(heap') :
           (/\ ~StrictlyAscending(data_ptr(heap', n).keys)
            /\ n \in NodeIds(heap) => StrictlyAscending(data_ptr(heap, n).keys))
               => (/\ last'.op = "set_keys"
                   /\ last'.target = n
                   /\ ~StrictlyAscending(last'.arg))]_vars

\* C9 witness: set_keys has stored a strictly ascending vector of two keys.
C9_Witness ==
    /\ last.op = "set_keys"
    /\ Len(last.arg) = MaxLen
    /\ StrictlyAscending(last.arg)
    /\ data_ptr(heap, last.target).keys = last.arg

====
